---------------------------- MODULE Spec2Model ----------------------------
(***************************************************************************)
(* The cmscan tabular-output parser of micronota                           *)
(* (micronota/parsers/cmscan.py): the record parser _parse_records, a      *)
(* generator that groups the hits of a file by query sequence, its two     *)
(* readers and the format sniffer.                                         *)
(*                                                                         *)
(* A line of text is a sequence of one-character strings, so that strip,   *)
(* split, startswith, isdigit and int are computed on the text as Python   *)
(* computes them.                                                          *)
(***************************************************************************)
EXTENDS Integers, Sequences, FiniteSets, TLC

VARIABLES
    fh,               \* the file: the sequence of its lines, each by its name in Text
    pos,              \* number of lines of fh the line generator has handed out or skipped
    pc,               \* where the generator _parse_records stands
    currentsequence,  \* its local: the sequence name of the previous hit, or False
    annotations,      \* its local: the dictionary Feature -> list of intervals
    hit,              \* its locals attributes, hitStart, hitEnd while suspended at the yield
    emitted,          \* the dictionaries _parse_records has yielded, in order
    error,            \* the exception that ended _parse_records, or NoError
    reader,           \* which reader drives the generator
    produced,         \* the objects _cmscan_to_generator has yielded
    rec_num,          \* the argument of _cmscan_to_metadata
    i,                \* _get_nth_record: index of the last record received
    seq,              \* _get_nth_record: the last record received
    status,           \* _cmscan_to_metadata: running, returned, ValueError or raised
    result,           \* _cmscan_to_metadata: the object returned
    sniffed           \* _cmscan_sniffer: its return value, once it has run

vars == <<fh, pos, pc, currentsequence, annotations, hit, emitted, error,
          reader, produced, rec_num, i, seq, status, result, sniffed>>

parserVars == <<pos, pc, currentsequence, annotations, hit, emitted, error>>
readerVars == <<reader, produced, rec_num, i, seq, status, result>>

-----------------------------------------------------------------------------
(* Bounds of the model *)

MaxLines == 3      \* lines of a file, after its leading blank lines
MaxBlanks == 6     \* leading blank lines of a file given to the sniffer
MaxRecNum == 3     \* largest rec_num given to _cmscan_to_metadata

-----------------------------------------------------------------------------
(* Python's str operations *)

Whitespace == {" ", "\t"}
Digits == {"0", "1", "2", "3", "4", "5", "6", "7", "8", "9"}

DigitValue ==
    ("0" :> 0) @@ ("1" :> 1) @@ ("2" :> 2) @@ ("3" :> 3) @@ ("4" :> 4) @@
    ("5" :> 5) @@ ("6" :> 6) @@ ("7" :> 7) @@ ("8" :> 8) @@ ("9" :> 9)

RECURSIVE lstrip(_)
lstrip(s) ==
    IF s # <<>> /\ Head(s) \in Whitespace THEN lstrip(Tail(s)) ELSE s

RECURSIVE rstrip(_)
rstrip(s) ==
    IF s # <<>> /\ s[Len(s)] \in Whitespace
    THEN rstrip(SubSeq(s, 1, Len(s) - 1))
    ELSE s

strip(s) == rstrip(lstrip(s))

isspace(s) == s # <<>> /\ \A k \in 1..Len(s) : s[k] \in Whitespace

startswith(s, prefix) ==
    Len(s) >= Len(prefix) /\ SubSeq(s, 1, Len(prefix)) = prefix

RECURSIVE SplitAcc(_, _, _)
SplitAcc(s, cur, acc) ==
    IF s = <<>>
    THEN IF cur = <<>> THEN acc ELSE Append(acc, cur)
    ELSE IF Head(s) \in Whitespace
         THEN SplitAcc(Tail(s), <<>>, IF cur = <<>> THEN acc ELSE Append(acc, cur))
         ELSE SplitAcc(Tail(s), Append(cur, Head(s)), acc)

split(s) == SplitAcc(s, <<>>, <<>>)

isdigit(s) == s # <<>> /\ \A k \in 1..Len(s) : s[k] \in Digits

RECURSIVE int(_)
int(s) ==
    IF s = <<>> THEN 0
    ELSE 10 * int(SubSeq(s, 1, Len(s) - 1)) + DigitValue[s[Len(s)]]

-----------------------------------------------------------------------------
(* The module's constants *)

_COLUMNS ==
    << "MODEL_NAME", "MODEL_ACCESSION", "SEQUENCE_NAME",
       "SEQUENCE_ACCESSION", "TYPE_OF_MODEL", "MODEL_START_POSITION",
       "MODEL_END_POSITION", "SEQUENCE_START_POSITION",
       "SEQUENCE_END_POSITION", "STRAND", "TRUNCATED", "PASS",
       "GC_CONTENT", "BIAS", "BITSCORE", "EVALUE", "INC", "DESCRIPTION" >>

\* _COLUMNS.index(key), 0-based as in Python
index(key) == (CHOOSE k \in 1..Len(_COLUMNS) : _COLUMNS[k] = key) - 1

\* fields[n] for a 0-based n that is in range
item(fields, n) == fields[n + 1]

program == "CMSCAN"

\* the initial value of currentsequence; no str is identical to it
False == << "False" >>

HeaderMarker == << "#", "t", "a", "r", "g", "e", "t", " ", "n", "a", "m", "e" >>

SnifferMaxBlanks == 5

-----------------------------------------------------------------------------
(* Exceptions *)

NoError ==
    [type |-> "none", column |-> -1, value |-> <<>>, hitStart |-> -1, hitEnd |-> -1]

CmscanFormatError(column, value, hitStart, hitEnd) ==
    [type |-> "CmscanFormatError", column |-> column, value |-> value,
     hitStart |-> hitStart, hitEnd |-> hitEnd]

\* raised by "%s %i %s '%s'." % (five values)
TypeError ==
    [type |-> "TypeError", column |-> -1, value |-> <<>>, hitStart |-> -1, hitEnd |-> -1]

\* raised by fields[n] when the line has no field n
IndexError ==
    [type |-> "IndexError", column |-> -1, value |-> <<>>, hitStart |-> -1, hitEnd |-> -1]

-----------------------------------------------------------------------------
(* _parse_records: the work on one data line, up to the grouping step *)

\* CheckStrand as it would be without the swap on the reverse strand
CheckStrand_NoSwap(hitOrientation, hitStart, hitEnd) ==
    IF hitOrientation = << "+" >>
    THEN IF hitStart > hitEnd
         THEN [error |-> CmscanFormatError(-1, <<>>, hitStart, hitEnd),
               hitStart |-> hitStart, hitEnd |-> hitEnd]
         ELSE [error |-> NoError, hitStart |-> hitStart, hitEnd |-> hitEnd]
    ELSE IF hitOrientation = << "-" >>
         THEN IF hitStart < hitEnd
              THEN [error |-> CmscanFormatError(-1, <<>>, hitStart, hitEnd),
                    hitStart |-> hitStart, hitEnd |-> hitEnd]
              ELSE [error |-> NoError, hitStart |-> hitStart, hitEnd |-> hitEnd]
         ELSE [error |-> CmscanFormatError(index("STRAND"), hitOrientation, -1, -1),
               hitStart |-> hitStart, hitEnd |-> hitEnd]

\* the strand check and the swap of the reverse strand's bounds
CheckStrand(hitOrientation, hitStart, hitEnd) ==
    IF hitOrientation = << "+" >>
    THEN IF hitStart > hitEnd
         THEN [error |-> CmscanFormatError(-1, <<>>, hitStart, hitEnd),
               hitStart |-> hitStart, hitEnd |-> hitEnd]
         ELSE [error |-> NoError, hitStart |-> hitStart, hitEnd |-> hitEnd]
    ELSE IF hitOrientation = << "-" >>
         THEN IF hitStart < hitEnd
              THEN [error |-> CmscanFormatError(-1, <<>>, hitStart, hitEnd),
                    hitStart |-> hitStart, hitEnd |-> hitEnd]
              ELSE [error |-> NoError, hitStart |-> hitEnd, hitEnd |-> hitStart]
         ELSE [error |-> CmscanFormatError(index("STRAND"), hitOrientation, -1, -1),
               hitStart |-> hitStart, hitEnd |-> hitEnd]

\* the attribute dictionary of a line of at least 18 fields under program
Attributes(fields) ==
    [SEQUENCE_NAME        |-> item(fields, IF program = "CMSEARCH" THEN 0 ELSE 2),
     SEQUENCE_ACCESSION   |-> item(fields, IF program = "CMSEARCH" THEN 1 ELSE 3),
     MODEL_NAME           |-> item(fields, IF program = "CMSEARCH" THEN 2 ELSE 0),
     MODEL_ACCESSION      |-> item(fields, IF program = "CMSEARCH" THEN 3 ELSE 1),
     TYPE_OF_MODEL        |-> item(fields, index("TYPE_OF_MODEL")),
     MODEL_START_POSITION |-> item(fields, index("MODEL_START_POSITION")),
     MODEL_END_POSITION   |-> item(fields, index("MODEL_END_POSITION")),
     STRAND               |-> item(fields, index("STRAND")),
     TRUNCATED            |-> item(fields, index("TRUNCATED")),
     PASS                 |-> item(fields, index("PASS")),
     GC_CONTENT           |-> item(fields, index("GC_CONTENT")),
     BIAS                 |-> item(fields, index("BIAS")),
     BITSCORE             |-> item(fields, index("BITSCORE")),
     EVALUE               |-> item(fields, index("EVALUE")),
     INC                  |-> item(fields, index("INC")),
     DESCRIPTION          |-> item(fields, index("DESCRIPTION"))]

\* the frozen, hashable form of an attribute dictionary: equal dictionaries
\* give equal keys
Feature(attributes) == attributes

Failed(e) == [error |-> e, attributes |-> <<>>, hitStart |-> -1, hitEnd |-> -1]

\* lines 215-308 on a stripped line that does not start with '#': the
\* exception raised, or the attributes and the interval of the hit
ProcessLine(line) ==
    LET fields == split(line)
        iStart == index("SEQUENCE_START_POSITION")
        iEnd   == index("SEQUENCE_END_POSITION")
        iStrand == index("STRAND")
    IN  IF Len(fields) <= iStart THEN Failed(IndexError)
        ELSE IF ~isdigit(item(fields, iStart))
        THEN Failed(CmscanFormatError(iStart, item(fields, iStart), -1, -1))
        ELSE IF Len(fields) <= iEnd THEN Failed(IndexError)
        ELSE IF ~isdigit(item(fields, iEnd)) THEN Failed(TypeError)
        ELSE IF Len(fields) <= iStrand THEN Failed(IndexError)
        ELSE LET chk == CheckStrand(item(fields, iStrand),
                                    int(item(fields, iStart)),
                                    int(item(fields, iEnd)))
             IN  IF chk.error.type # "none" THEN Failed(chk.error)
                 ELSE IF program \notin {"CMSEARCH", "CMSCAN"}
                 THEN Failed(CmscanFormatError(-1, <<>>, -1, -1))
                 ELSE IF Len(fields) <= index("DESCRIPTION") THEN Failed(IndexError)
                 ELSE [error |-> NoError,
                       attributes |-> Attributes(fields),
                       hitStart |-> chk.hitStart,
                       hitEnd |-> chk.hitEnd]

\* GroupChanged as it would be without the test against False
GroupChanged_NoSentinel(current, name) == current # name

\* the test that closes a group (lines 313-314)
GroupChanged(current, name) == current # name /\ current # False

\* annotations[Feature(attributes)] = [(hitStart, hitEnd)]
SetItem(dict, h) ==
    [f \in DOMAIN dict \cup {Feature(h.attributes)} |->
        IF f = Feature(h.attributes) THEN << <<h.hitStart, h.hitEnd>> >> ELSE dict[f]]

EmptyDict == <<>>

-----------------------------------------------------------------------------
(* _construct *)

IntervalMetadata(features) == [type |-> "IntervalMetadata", features |-> features]

None == [type |-> "NoneType", features |-> EmptyDict]

\* _construct as it would be if a constructor of None were not replaced
_construct_NoDefault(record, constructor) ==
    IF constructor = "IntervalMetadata" THEN IntervalMetadata(record) ELSE None

_construct(record, constructor) ==
    LET c == IF constructor = "None" THEN "IntervalMetadata" ELSE constructor
    IN  IF c = "IntervalMetadata" THEN IntervalMetadata(record) ELSE None

-----------------------------------------------------------------------------
(* The files the model reads *)

RECURSIVE Join(_, _)
Join(tokens, sep) ==
    IF tokens = <<>> THEN <<>>
    ELSE IF Len(tokens) = 1 THEN tokens[1]
    ELSE tokens[1] \o sep \o Join(Tail(tokens), sep)

Name1 == << "g", "i", "1" >>
Name2 == << "g", "i", "2" >>
ModelA == << "L", "S", "U" >>
Dash == << "-" >>

\* a data line of cmscan --tblout: 17 columns, then the description's words
DataLine(name, from, to, strand, description, sep) ==
    Join(<< ModelA, << "R", "F" >>, name, Dash, << "c", "m" >>, << "1" >>, << "9" >>,
            from, to, strand,
            << "n", "o" >>, << "1" >>, << "0", ".", "5" >>, << "0" >>, << "9" >>,
            << "0" >>, << "!" >> >> \o description,
         sep)

Space == << " " >>

ForwardHit    == DataLine(Name1, << "1" >>, << "2" >>, << "+" >>, << Dash >>, Space)
ForwardEqual  == DataLine(Name1, << "1", "2" >>, << "1", "2" >>, << "+" >>, << Dash >>, Space)
ForwardBad    == DataLine(Name1, << "2" >>, << "1" >>, << "+" >>, << Dash >>, Space)
ReverseHit    == DataLine(Name1, << "1", "2" >>, << "2" >>, << "-" >>, << Dash >>, Space)
ReverseEqual  == DataLine(Name1, << "1" >>, << "1" >>, << "-" >>, << Dash >>, Space)
ReverseBad    == DataLine(Name1, << "1" >>, << "2" >>, << "-" >>, << Dash >>, Space)
BadStrand     == DataLine(Name1, << "1" >>, << "2" >>, << "x" >>, << Dash >>, Space)
BadEnd        == DataLine(Name1, << "1" >>, << "x" >>, << "+" >>, << Dash >>, Space)
BadStartAndStrand ==
    DataLine(Name1, << "a", "b", "c" >>, << "2" >>, << "x" >>, << Dash >>, Space)
\* another sequence; columns two blanks apart, the line indented and padded
OtherSequence ==
    << " " >> \o DataLine(Name2, << "1" >>, << "2" >>, << "+" >>, << Dash >>, << " ", " " >>)
              \o << " ", "\t" >>
NoDescription == DataLine(Name1, << "1" >>, << "2" >>, << "+" >>, << >>, Space)
LongDescription ==
    DataLine(Name1, << "1" >>, << "2" >>, << "+" >>,
             << << "r", "R", "N", "A" >>, << "g", "e", "n", "e" >> >>, Space)

BlankLine == << >>
CommentLine == << "#", "-", "-" >>
HeaderLine == HeaderMarker \o << " ", "a", "c", "c" >>

\* The lines of the model's files. A file holds the names of its lines and
\* Text gives the characters of each.
Text ==
    [ ForwardHit |-> ForwardHit, ForwardEqual |-> ForwardEqual,
      ForwardBad |-> ForwardBad, ReverseHit |-> ReverseHit,
      ReverseEqual |-> ReverseEqual, ReverseBad |-> ReverseBad,
      BadStrand |-> BadStrand, BadEnd |-> BadEnd,
      BadStartAndStrand |-> BadStartAndStrand, OtherSequence |-> OtherSequence,
      NoDescription |-> NoDescription, LongDescription |-> LongDescription,
      BlankLine |-> BlankLine, CommentLine |-> CommentLine,
      HeaderLine |-> HeaderLine, HeaderOnly |-> HeaderMarker,
      IndentedHeader |-> << " " >> \o HeaderLine,
      ShortHeader |-> SubSeq(HeaderMarker, 1, 7),
      WhiteLine |-> << " ", "\t" >> ]

Lines ==
    { "ForwardHit", "ForwardEqual", "ForwardBad", "ReverseHit", "ReverseEqual",
      "ReverseBad", "BadStrand", "BadEnd", "BadStartAndStrand", "OtherSequence",
      "NoDescription", "LongDescription", "BlankLine", "CommentLine" }

\* lines for the two readers: three hits of two sequences, a line that
\* raises, a comment and a blank line
ReaderLines ==
    { "ForwardHit", "LongDescription", "OtherSequence", "BadStrand",
      "CommentLine", "BlankLine" }

\* lines for the sniffer: header lines, near misses of the header, other lines
SnifferLines ==
    { "HeaderLine", "HeaderOnly", "IndentedHeader", "ShortHeader",
      "CommentLine", "ForwardHit", "BlankLine", "WhiteLine" }

AllLines == DOMAIN Text

\* the files of at most n lines over a set of lines
Files(lines, n) == UNION { [1..k -> lines] : k \in 0..n }

\* k blank lines
Blanks(k) == [j \in 1..k |-> "BlankLine"]

-----------------------------------------------------------------------------
(* _parse_records under _cmscan_to_generator *)

NoHit == Failed(NoError)

\* strip and ProcessLine, computed once for each line of the model's files
Stripped == [l \in AllLines |-> strip(Text[l])]
Processed == [l \in AllLines |-> ProcessLine(strip(Text[l]))]

\* the line the line generator looks at next, stripped (strip=True)
NextLine == Stripped[fh[pos + 1]]

\* the consumer is waiting for the generator's next record:
\* _cmscan_to_generator iterates to the end, _get_nth_record stops at rec_num
Demand ==
    \/ reader = "generator"
    \/ reader = "metadata" /\ status = "running" /\ rec_num >= 1 /\ i < rec_num

\* the consumer receives a yielded record
Deliver(record) ==
    IF reader = "generator"
    THEN /\ produced' = Append(produced, _construct(record, "None"))
         /\ UNCHANGED <<i, seq>>
    ELSE /\ i' = i + 1
         /\ seq' = record
         /\ UNCHANGED produced

\* _line_generator(skip_blanks=True) drops a blank line
SkipBlank ==
    /\ pc = "loop" /\ Demand
    /\ pos < Len(fh)
    /\ NextLine = <<>>
    /\ pos' = pos + 1
    /\ UNCHANGED <<fh, pc, currentsequence, annotations, hit, emitted, error,
                   readerVars, sniffed>>

\* a line that starts with '#' is passed over
SkipComment ==
    /\ pc = "loop" /\ Demand
    /\ pos < Len(fh)
    /\ NextLine # <<>>
    /\ startswith(NextLine, << "#" >>)
    /\ pos' = pos + 1
    /\ UNCHANGED <<fh, pc, currentsequence, annotations, hit, emitted, error,
                   readerVars, sniffed>>

IsDataLine(line) == Stripped[line] # <<>> /\ ~startswith(Stripped[line], << "#" >>)

\* RaiseError as it would be if a bad line were skipped
RaiseError_SkipLine ==
    /\ pc = "loop" /\ Demand
    /\ pos < Len(fh)
    /\ IsDataLine(fh[pos + 1])
    /\ Processed[fh[pos + 1]].error.type # "none"
    /\ pos' = pos + 1
    /\ UNCHANGED <<fh, pc, currentsequence, annotations, hit, emitted, error,
                   readerVars, sniffed>>

\* a data line raises
RaiseError ==
    /\ pc = "loop" /\ Demand
    /\ pos < Len(fh)
    /\ IsDataLine(fh[pos + 1])
    /\ Processed[fh[pos + 1]].error.type # "none"
    /\ pos' = pos + 1
    /\ pc' = "raised"
    /\ error' = Processed[fh[pos + 1]].error
    /\ UNCHANGED <<fh, currentsequence, annotations, hit, emitted, readerVars, sniffed>>

\* a data line of the group in progress (or the first data line) is added
AddHit ==
    /\ pc = "loop" /\ Demand
    /\ pos < Len(fh)
    /\ IsDataLine(fh[pos + 1])
    /\ LET h == Processed[fh[pos + 1]]
       IN  /\ h.error.type = "none"
           /\ ~GroupChanged(currentsequence, h.attributes.SEQUENCE_NAME)
           /\ annotations' = SetItem(annotations, h)
           /\ currentsequence' = h.attributes.SEQUENCE_NAME
    /\ pos' = pos + 1
    /\ UNCHANGED <<fh, pc, hit, emitted, error, readerVars, sniffed>>

\* a data line of another sequence: the generator yields the group in progress
\* and is suspended at the yield, the line's hit in its locals
YieldGroup ==
    /\ pc = "loop" /\ Demand
    /\ pos < Len(fh)
    /\ IsDataLine(fh[pos + 1])
    /\ LET h == Processed[fh[pos + 1]]
       IN  /\ h.error.type = "none"
           /\ GroupChanged(currentsequence, h.attributes.SEQUENCE_NAME)
           /\ hit' = h
    /\ pos' = pos + 1
    /\ pc' = "yield"
    /\ emitted' = Append(emitted, annotations)
    /\ Deliver(annotations)
    /\ UNCHANGED <<fh, currentsequence, annotations, error, reader, rec_num,
                   status, result, sniffed>>

\* resumed after the yield: a new dictionary, the pending hit goes into it
Resume ==
    /\ pc = "yield" /\ Demand
    /\ annotations' = SetItem(EmptyDict, hit)
    /\ currentsequence' = hit.attributes.SEQUENCE_NAME
    /\ hit' = NoHit
    /\ pc' = "loop"
    /\ UNCHANGED <<fh, pos, emitted, error, readerVars, sniffed>>

\* EndOfInput as it would be if an empty dictionary were not yielded
EndOfInput_OnlyIfHits ==
    /\ pc = "loop" /\ Demand
    /\ pos = Len(fh)
    /\ IF DOMAIN annotations = {}
       THEN /\ pc' = "done"
            /\ UNCHANGED <<emitted, produced, i, seq>>
       ELSE /\ pc' = "final"
            /\ emitted' = Append(emitted, annotations)
            /\ Deliver(annotations)
    /\ UNCHANGED <<fh, pos, currentsequence, annotations, hit, error, reader,
                   rec_num, status, result, sniffed>>

\* the file is exhausted: the final yield
EndOfInput ==
    /\ pc = "loop" /\ Demand
    /\ pos = Len(fh)
    /\ pc' = "final"
    /\ emitted' = Append(emitted, annotations)
    /\ Deliver(annotations)
    /\ UNCHANGED <<fh, pos, currentsequence, annotations, hit, error, reader,
                   rec_num, status, result, sniffed>>

\* resumed after the final yield: the generator returns
Finish ==
    /\ pc = "final" /\ Demand
    /\ pc' = "done"
    /\ UNCHANGED <<fh, pos, currentsequence, annotations, hit, emitted, error,
                   readerVars, sniffed>>

ParseStep ==
    \/ SkipBlank
    \/ SkipComment
    \/ RaiseError
    \/ AddHit
    \/ YieldGroup
    \/ Resume
    \/ EndOfInput
    \/ Finish

NoResult == None

InitParser ==
    /\ pos = 0
    /\ pc = "loop"
    /\ currentsequence = False
    /\ annotations = EmptyDict
    /\ hit = NoHit
    /\ emitted = <<>>
    /\ error = NoError

Init ==
    /\ fh \in Files(Lines, MaxLines)
    /\ InitParser
    /\ reader = "generator"
    /\ produced = <<>>
    /\ rec_num = 0
    /\ i = 0
    /\ seq = EmptyDict
    /\ status = "idle"
    /\ result = NoResult
    /\ sniffed = [match |-> FALSE, options |-> EmptyDict]

Next == ParseStep

Spec == Init /\ [][Next]_vars

-----------------------------------------------------------------------------
(* What the file says, read off its text independently of the parser's state *)

Fields == [l \in AllLines |-> split(strip(Text[l]))]

\* the data lines among the first n lines of the file
DataLines(n) == { k \in 1..n : IsDataLine(fh[k]) }

Max(S) == CHOOSE m \in S : \A k \in S : k <= m

\* the data line before line k, or 0
PrevData(k) == IF DataLines(k - 1) = {} THEN 0 ELSE Max(DataLines(k - 1))

\* the query-sequence identifier of data line k (column index 2)
NameOf(k) == Fields[fh[k]][3]

\* the data lines among the first n whose identifier differs from the
\* previous data line's
Changes(n) ==
    { k \in DataLines(n) : PrevData(k) # 0 /\ NameOf(k) # NameOf(PrevData(k)) }

\* the first lines of the maximal runs among the first n lines
RunStarts(n) == { k \in DataLines(n) : PrevData(k) = 0 } \cup Changes(n)

\* the first line of the j-th run
RunStart(n, j) ==
    CHOOSE k \in RunStarts(n) : Cardinality({ m \in RunStarts(n) : m < k }) = j - 1

\* the interval a line of numeric coordinates and a strand of + or - stands for
IntervalOf(line) ==
    LET F == Fields[line]
        from == int(F[8])
        to == int(F[9])
    IN  IF F[10] = << "+" >> THEN <<from, to>> ELSE <<to, from>>

\* the strand field agrees with the order of the coordinates
StrandAgrees(line) ==
    LET F == Fields[line]
    IN  \/ F[10] = << "+" >> /\ int(F[8]) <= int(F[9])
        \/ F[10] = << "-" >> /\ int(F[8]) >= int(F[9])

NumericCoordinates(line) ==
    /\ Len(Fields[line]) >= 10
    /\ isdigit(Fields[line][8])
    /\ isdigit(Fields[line][9])

\* the description of a line: its words after the 17 fixed columns
DescriptionOf(line) ==
    Join(SubSeq(Fields[line], 18, Len(Fields[line])), << " " >>)

RECURSIVE TotalEntries(_)
TotalEntries(groups) ==
    IF groups = <<>> THEN 0
    ELSE Cardinality(DOMAIN Head(groups)) + TotalEntries(Tail(groups))

\* line pos is a data line and the parser is through with it
JustAccepted == pc = "loop" /\ pos >= 1 /\ IsDataLine(fh[pos])

\* the sequence names that the hits of a group carry
NamesIn(group) == { f.SEQUENCE_NAME : f \in DOMAIN group }

\* two lines that differ in nothing but their seq from / seq to columns
DifferInCoordinatesOnly(a, b) ==
    /\ Len(Fields[a]) = Len(Fields[b])
    /\ \A c \in 1..Len(Fields[a]) : c \notin {8, 9} => Fields[a][c] = Fields[b][c]
    /\ <<Fields[a][8], Fields[a][9]>> # <<Fields[b][8], Fields[b][9]>>

\* every interval of a dictionary is one pair in ascending order
Ascending(dict) ==
    \A f \in DOMAIN dict :
        /\ Len(dict[f]) = 1
        /\ dict[f][1][1] <= dict[f][1][2]

-----------------------------------------------------------------------------
(* The claims about _parse_records, checked under Spec *)

\* C1: when _parse_records finishes without error, the hit entries of all
\* emitted groups together are as many as the data lines of the file, and two
\* consecutive data lines of one sequence that differ only in their
\* coordinates give one group with an entry for each, each with its interval.
C1_EntriesEqualDataLines ==
    pc = "done" =>
        /\ TotalEntries(emitted) = Cardinality(DataLines(Len(fh)))
        /\ \A k \in DataLines(Len(fh)) :
              (PrevData(k) # 0 /\ DifferInCoordinatesOnly(fh[PrevData(k)], fh[k])) =>
                  \E j \in 1..Len(emitted) :
                      \E f, g \in DOMAIN emitted[j] :
                          /\ f # g
                          /\ emitted[j][f] = << IntervalOf(fh[PrevData(k)]) >>
                          /\ emitted[j][g] = << IntervalOf(fh[k]) >>

\* C2 as stated: on an error-free input the emitted groups are, one for one
\* and in order, the maximal runs of data lines of one sequence identifier.
C2_GroupsAreRuns ==
    pc = "done" =>
        /\ Len(emitted) = Cardinality(RunStarts(Len(fh)))
        /\ \A j \in 1..Len(emitted) :
              NamesIn(emitted[j]) = { NameOf(RunStart(Len(fh), j)) }

\* C2 amended: while no error is raised, a group has been emitted for each
\* data line read so far whose identifier differs from the previous data
\* line's (none for the first data line); at the end of an input with at
\* least one data line the groups are as many as the maximal runs; and the
\* hits of the j-th group all carry the identifier of the j-th run, so an
\* identifier that comes back after another one has a group of its own.
C2_GroupsAreRunsOfNonEmptyInput ==
    pc # "raised" =>
        /\ pc \in {"loop", "yield"} => Len(emitted) = Cardinality(Changes(pos))
        /\ (pc \in {"final", "done"} /\ DataLines(pos) # {}) =>
              Len(emitted) = Cardinality(RunStarts(pos))
        /\ \A j \in 1..Len(emitted) :
              j <= Cardinality(RunStarts(pos)) =>
                  NamesIn(emitted[j]) = { NameOf(RunStart(pos, j)) }

\* C2 witness: three groups, the third for an identifier that came back
C2_Witness ==
    /\ pc = "done"
    /\ Len(emitted) = 3
    /\ NamesIn(emitted[1]) = NamesIn(emitted[3])
    /\ NamesIn(emitted[1]) # NamesIn(emitted[2])

\* C3: every stored interval has start <= end; the interval of an accepted
\* line is (seq from, seq to) on strand + and (seq to, seq from) on strand -,
\* and the STRAND attribute is the strand field as given.
C3_IntervalsAscending ==
    /\ Ascending(annotations)
    /\ \A j \in 1..Len(emitted) : Ascending(emitted[j])
    /\ JustAccepted =>
          \E f \in DOMAIN annotations :
              /\ annotations[f] = << IntervalOf(fh[pos]) >>
              /\ f.STRAND = Fields[fh[pos]][10]
              /\ f.SEQUENCE_NAME = NameOf(pos)

\* C3 witness: a reverse-strand line whose bounds were swapped
C3_Witness ==
    /\ JustAccepted
    /\ Fields[fh[pos]][10] = << "-" >>
    /\ int(Fields[fh[pos]][8]) > int(Fields[fh[pos]][9])

\* C4: a data line with numeric coordinates is accepted if and only if its
\* strand is + with start <= end or - with start >= end; otherwise the format
\* error is raised.
C4_AcceptedIffStrandAgrees ==
    (pos >= 1 /\ IsDataLine(fh[pos]) /\ NumericCoordinates(fh[pos])) =>
        /\ pc # "raised" <=> StrandAgrees(fh[pos])
        /\ pc = "raised" => error.type = "CmscanFormatError"

\* C5: a non-numeric seq from or seq to raises the format error, which names
\* the column and the bad value; the coordinates are checked before the strand.
C5_BadCoordinateIsFormatError ==
    (/\ pc = "raised"
     /\ Len(Fields[fh[pos]]) >= 10
     /\ ~NumericCoordinates(fh[pos])) =>
        LET F == Fields[fh[pos]]
            bad == IF ~isdigit(F[8]) THEN 8 ELSE 9
        IN  /\ error.type = "CmscanFormatError"
            /\ error.column = bad - 1
            /\ error.value = F[bad]

\* C6: the DESCRIPTION of a hit is all the words after the 17 fixed columns,
\* and a line of exactly 17 words is parsed into a hit.
C6_DescriptionIsRemainder ==
    (/\ pos >= 1
     /\ IsDataLine(fh[pos])
     /\ Len(Fields[fh[pos]]) >= 17
     /\ NumericCoordinates(fh[pos])
     /\ StrandAgrees(fh[pos])) =>
        /\ pc # "raised"
        /\ JustAccepted =>
              \E f \in DOMAIN annotations :
                  /\ f.DESCRIPTION = DescriptionOf(fh[pos])
                  /\ annotations[f] = << IntervalOf(fh[pos]) >>

\* C7: an input read to its end without error has one terminal emission, so
\* the groups are the identifier changes plus one; the terminal group is
\* empty if and only if there is no data line, and no other group is empty.
C7_OneTerminalEmission ==
    /\ pc \in {"loop", "yield"} => Len(emitted) <= Cardinality(Changes(pos))
    /\ pc \in {"final", "done"} =>
          /\ pos = Len(fh)
          /\ Len(emitted) = Cardinality(Changes(Len(fh))) + 1
          /\ \A j \in 1..Len(emitted) :
                DOMAIN emitted[j] = {} <=>
                    (j = Len(emitted) /\ DataLines(Len(fh)) = {})

\* C7 witness: a file of comment and blank lines only has given one empty group
C7_Witness ==
    /\ pc = "done"
    /\ Len(fh) >= 2
    /\ DataLines(Len(fh)) = {}
    /\ Len(emitted) = 1
    /\ DOMAIN emitted[1] = {}

\* C8: when data line k fails, the generator raises at line k, reads no
\* further line and emits nothing more; what it has emitted are the runs
\* closed by a valid line of another identifier before k.
C8_FailFast ==
    \A k \in 1..pos :
        (IsDataLine(fh[k]) /\ Processed[fh[k]].error.type # "none") =>
            /\ pc = "raised"
            /\ pos = k
            /\ error = Processed[fh[k]].error
            /\ ~ENABLED Next
            /\ Len(emitted) = Cardinality(Changes(k - 1))
            /\ \A j \in 1..Len(emitted) :
                  NamesIn(emitted[j]) = { NameOf(RunStart(k - 1, j)) }

\* C8 witness: the failing line names another sequence than the run in
\* progress, one group was yielded before it, and that run is not emitted
C8_Witness ==
    /\ pc = "raised"
    /\ Len(emitted) = 1
    /\ PrevData(pos) # 0
    /\ NameOf(pos) # NameOf(PrevData(pos))

-----------------------------------------------------------------------------
(* _cmscan_to_metadata, run on the file after _cmscan_to_generator has run *)

\* _cmscan_to_metadata(fh, rec_num) is called: a new generator over the file
StartMetadata ==
    /\ reader = "generator"
    /\ pc \in {"done", "raised"}
    /\ reader' = "metadata"
    /\ status' = "running"
    /\ pos' = 0
    /\ pc' = "loop"
    /\ currentsequence' = False
    /\ annotations' = EmptyDict
    /\ hit' = NoHit
    /\ emitted' = <<>>
    /\ error' = NoError
    /\ i' = 0
    /\ seq' = EmptyDict
    /\ UNCHANGED <<fh, produced, rec_num, result, sniffed>>

\* _get_nth_record refuses a rec_num below 1 before it asks for a record
NthInvalid ==
    /\ reader = "metadata" /\ status = "running"
    /\ rec_num < 1
    /\ status' = "ValueError"
    /\ UNCHANGED <<fh, parserVars, reader, produced, rec_num, i, seq, result, sniffed>>

\* the rec_num-th record has arrived: the generator is closed where it is
\* suspended and the object is constructed from the record
NthReturn ==
    /\ reader = "metadata" /\ status = "running"
    /\ rec_num >= 1
    /\ i = rec_num
    /\ pc' = "closed"
    /\ result' = _construct(seq, "IntervalMetadata")
    /\ status' = "returned"
    /\ UNCHANGED <<fh, pos, currentsequence, annotations, hit, emitted, error,
                   reader, produced, rec_num, i, seq, sniffed>>

\* the generator is exhausted before the rec_num-th record
NthExhausted ==
    /\ reader = "metadata" /\ status = "running"
    /\ rec_num >= 1
    /\ pc = "done"
    /\ i < rec_num
    /\ status' = "ValueError"
    /\ UNCHANGED <<fh, parserVars, reader, produced, rec_num, i, seq, result, sniffed>>

\* the generator raised: the exception goes through to the caller
NthPropagate ==
    /\ reader = "metadata" /\ status = "running"
    /\ pc = "raised"
    /\ status' = "raised"
    /\ UNCHANGED <<fh, parserVars, reader, produced, rec_num, i, seq, result, sniffed>>

InitReaders ==
    /\ fh \in Files(ReaderLines, MaxLines)
    /\ InitParser
    /\ reader = "generator"
    /\ produced = <<>>
    /\ rec_num \in 0..MaxRecNum
    /\ i = 0
    /\ seq = EmptyDict
    /\ status = "idle"
    /\ result = NoResult
    /\ sniffed = [match |-> FALSE, options |-> EmptyDict]

NextReaders ==
    \/ ParseStep
    \/ StartMetadata
    \/ NthInvalid
    \/ NthReturn
    \/ NthExhausted
    \/ NthPropagate

ReaderSpec == InitReaders /\ [][NextReaders]_vars

\* the data lines of the file on which the parser raises
FailingLines ==
    { k \in DataLines(Len(fh)) : Processed[fh[k]].error.type # "none" }

\* C9: _cmscan_to_metadata with index n returns the object made from the n-th
\* group _cmscan_to_generator produces on the same file, having received n
\* records; it fails when the file has fewer than n groups, and an error on a
\* line it needs to reach group n propagates.
C9_NthRecordIsNthOfGenerator ==
    (reader = "metadata" /\ status # "running") =>
        /\ status =
              IF rec_num < 1 THEN "ValueError"
              ELSE IF rec_num <= Len(produced) THEN "returned"
              ELSE IF FailingLines # {} THEN "raised"
              ELSE "ValueError"
        /\ status = "returned" => (result = produced[rec_num] /\ i = rec_num)
        /\ status = "raised" => error = Processed[fh[pos]].error

\* C9 witness: the second of three groups was returned
C9_Witness ==
    /\ reader = "metadata"
    /\ status = "returned"
    /\ rec_num = 2
    /\ Len(produced) = 3
    /\ DOMAIN result.features # {}

-----------------------------------------------------------------------------
(* _cmscan_sniffer *)

\* _line_generator(fh, skip_blanks, strip): the lines it yields
RECURSIVE _line_generator(_, _, _)
_line_generator(file, skip_blanks, strip_) ==
    IF file = <<>> THEN <<>>
    ELSE LET line == IF strip_ THEN strip(Text[Head(file)]) ELSE Text[Head(file)]
             skip == skip_blanks /\ (isspace(line) \/ line = <<>>)
         IN  (IF skip THEN <<>> ELSE << line >>)
                 \o _line_generator(Tail(file), skip_blanks, strip_)

\* _too_many_blanks(fh, max_blanks): more than max_blanks lines before the
\* first line that is not blank
RECURSIVE CountBlanks(_, _, _)
CountBlanks(lines, count, max_blanks) ==
    IF lines = <<>> THEN FALSE
    ELSE IF Head(lines) # <<>> THEN FALSE
    ELSE IF count + 1 > max_blanks THEN TRUE
    ELSE CountBlanks(Tail(lines), count + 1, max_blanks)

_too_many_blanks(file, max_blanks) ==
    CountBlanks(_line_generator(file, FALSE, TRUE), 0, max_blanks)

\* SniffMatch as it would be if the first line were read with strip=True
SniffMatch_Stripped(file) ==
    IF _too_many_blanks(file, SnifferMaxBlanks) THEN FALSE
    ELSE LET lines == _line_generator(file, TRUE, TRUE)
         IN  IF lines = <<>> THEN FALSE
             ELSE startswith(Head(lines), HeaderMarker)

\* the verdict of the sniffer on a file
SniffMatch(file) ==
    IF _too_many_blanks(file, SnifferMaxBlanks) THEN FALSE
    ELSE LET lines == _line_generator(file, TRUE, FALSE)
         IN  IF lines = <<>> THEN FALSE
             ELSE startswith(Head(lines), HeaderMarker)

_cmscan_sniffer ==
    /\ reader = "sniffer" /\ status = "idle"
    /\ sniffed' = [match |-> SniffMatch(fh), options |-> EmptyDict]
    /\ status' = "returned"
    /\ UNCHANGED <<fh, parserVars, reader, produced, rec_num, i, seq, result>>

InitSniffer ==
    /\ fh \in { Blanks(n) \o body :
                  n \in 0..MaxBlanks, body \in Files(SnifferLines, MaxLines) }
    /\ InitParser
    /\ reader = "sniffer"
    /\ produced = <<>>
    /\ rec_num = 0
    /\ i = 0
    /\ seq = EmptyDict
    /\ status = "idle"
    /\ result = NoResult
    /\ sniffed = [match |-> FALSE, options |-> EmptyDict]

NextSniffer == _cmscan_sniffer

SnifferSpec == InitSniffer /\ [][NextSniffer]_vars

\* a blank line of text: empty or white space only
IsBlank(l) == \A c \in 1..Len(Text[l]) : Text[l][c] \in Whitespace

\* the lines of the file that are not blank
Content == { k \in 1..Len(fh) : ~IsBlank(fh[k]) }

\* the number of blank lines before the first line that is not blank
LeadingBlanks ==
    IF Content = {} THEN Len(fh)
    ELSE (CHOOSE k \in Content : \A m \in Content : k <= m) - 1

\* C10: the sniffer matches if and only if the file has at most 5 leading
\* blank lines and its first non-blank line starts with '#target name'; its
\* options are always empty.
C10_SnifferMatchesHeader ==
    (reader = "sniffer" /\ status = "returned") =>
        /\ sniffed.match <=>
              /\ LeadingBlanks <= 5
              /\ Content # {}
              /\ startswith(Text[fh[LeadingBlanks + 1]], HeaderMarker)
        /\ DOMAIN sniffed.options = {}

\* C10 witness: a header after exactly five blank lines is matched
C10_Witness ==
    /\ reader = "sniffer" /\ status = "returned"
    /\ LeadingBlanks = 5
    /\ sniffed.match

=============================================================================
